---- MODULE Spec2Model ----
(***************************************************************************)
(* Model of the Developer Efficiency Tracker (VecGen/efficiency-tracker):   *)
(* the per-team record store (local Excel files or S3 objects), the schema  *)
(* normalisation done by load_excel_data, the engineer entry form and the   *)
(* admin team management.                                                   *)
(***************************************************************************)
EXTENDS Integers, Sequences, FiniteSets, TLC

VARIABLES
    backend,       \* "local" | "s3": the manager get_data_manager() returned
    store,         \* partition file name -> stored payload
    loaded,        \* result of the latest load_excel_data call of the load harness
    views,         \* what each caller rendered from `loaded`
    pc,            \* per session: position of its script run
    df,            \* per session: the table loaded at engineer_interface.py:47
    loadErr,       \* per session: that load hit a load error
    loadedAt,      \* per session: the value of `writes` at that load
    form_version,  \* per session: st.session_state.form_version
    ui,            \* per session: messages of the latest submission
    sub,           \* per session: the latest submission and what it did to the store
    writes,        \* number of writes that reached the partition so far
    local_files,   \* the local medium when S3 is the configured one: file -> payload
    teams_config,  \* admin page: the dict of the latest run, team name -> developers
    teams_file,    \* the stored teams configuration
    confirm_delete,\* session_state of the admin: the teams whose confirm flag is set
    admin,         \* the handler the admin page ran last and the message it showed
    admin_authenticated, \* session_state.admin_authenticated of the browser session
    query_params,  \* st.query_params of the browser session
    page,          \* the view main rendered last, and what the run did
    settings_file,    \* the stored team settings (team_settings.xlsx / .json)
    default_settings, \* the lists of config.DEFAULT_SETTINGS in this process
    settings_saves,   \* number of save_team_settings calls so far
    entry             \* the entry form as rendered last: category and areas offered

vars == <<backend, store, loaded, views, pc, df, loadErr, loadedAt, form_version,
          ui, sub, writes, local_files, teams_config, teams_file, confirm_delete,
          admin, admin_authenticated, query_params, page,
          settings_file, default_settings, settings_saves, entry>>

----------------------------------------------------------------------------
(* Bounds of the model. *)

MaxStoredRows == 2   \* rows of a stored table drawn at Init
MaxAbsent == 2       \* canonical columns missing from a stored table
MaxWrites == 2       \* writes that reach the partition in one behaviour
MaxDevs == 1         \* developers of a team
MaxClears == 1       \* clicks on "Clear Form" per session
MaxAttempts == 2     \* wrong passwords submitted in one behaviour

----------------------------------------------------------------------------
(* Cell values.  A cell is a tagged record, so that cells of different      *)
(* Python types are different values.                                       *)

Str(s) == [t |-> "str", s |-> s]       \* a str that is no ISO date
Num(n) == [t |-> "num", n |-> n]       \* int / float
Date(d) == [t |-> "date", d |-> d]     \* datetime.date / Timestamp, day number d
IsoStr(d) == [t |-> "iso", d |-> d]    \* the str date.strftime('%Y-%m-%d') of day d
NaN == [t |-> "nan"]                   \* NaN / NaT / None: an empty cell
EmptyStr == Str("")

Range(s) == {s[i] : i \in DOMAIN s}

\* config.py:65-77
DB_COLUMNS ==
    << "Week_Start", "Week_End", "Story_ID", "Developer_Name", "Team_Name",
       "Original_Estimate_Hours", "Efficiency_Gained_Hours", "Copilot_Used",
       "Category", "Areas_of_Efficiency", "Notes_Observations" >>

\* s3_data_manager.py:71-75: the S3 manager's own copy of the column list
S3_COLUMNS ==
    << "Week_Start", "Week_End", "Story_ID", "Developer_Name", "Team_Name",
       "Original_Estimate_Hours", "Efficiency_Gained_Hours", "Copilot_Used",
       "Category", "Areas_of_Efficiency", "Notes_Observations" >>

\* A DataFrame: ordered column names and rows, each row a function on the columns.
DataFrame(columns, rows) == [columns |-> columns, rows |-> rows]

\* data_manager.py:15-17
create_empty_dataframe == DataFrame(DB_COLUMNS, << >>)

\* the copy of the column list drifting from DB_COLUMNS: one column short
s3_create_empty_dataframe_Drifted ==
    DataFrame(SubSeq(S3_COLUMNS, 1, Len(S3_COLUMNS) - 1), << >>)

\* s3_data_manager.py:69-75
s3_create_empty_dataframe == DataFrame(S3_COLUMNS, << >>)

\* DataFrame.empty: no rows or no columns
IsEmpty(d) == Len(d.rows) = 0 \/ Len(d.columns) = 0

\* df[c] = vals: assignment of a whole column (one cell per row); a new
\* column goes last
SetCol(d, c, vals) ==
    DataFrame(
        IF c \in Range(d.columns) THEN d.columns ELSE Append(d.columns, c),
        [i \in DOMAIN d.rows |->
            [k \in DOMAIN d.rows[i] \cup {c} |->
                IF k = c THEN vals[i] ELSE d.rows[i][k]]])

\* df[c]: the cells of a column
Col(d, c) == [i \in DOMAIN d.rows |-> d.rows[i][c]]

\* df.drop(c, axis=1)
DropCol(d, c) ==
    DataFrame(
        SelectSeq(d.columns, LAMBDA k : k # c),
        [i \in DOMAIN d.rows |-> [k \in DOMAIN d.rows[i] \ {c} |-> d.rows[i][k]]])

\* df[cols]: the listed columns, in the listed order
SelectCols(d, cols) ==
    DataFrame(cols, [i \in DOMAIN d.rows |-> [k \in Range(cols) |-> d.rows[i][k]]])

\* a concat that returns the left frame
ConcatRow_NoAppend(d, row) == d

\* pd.concat([df, pd.DataFrame([row])], ignore_index=True): union of the columns,
\* the left frame's first; a cell a frame has no column for is NaN
ConcatRow(d, row) ==
    LET newcols == SelectSeq(DB_COLUMNS, LAMBDA k : k \notin Range(d.columns))
        cols == d.columns \o newcols
        widen(r) == [k \in Range(cols) |-> IF k \in DOMAIN r THEN r[k] ELSE NaN]
    IN  DataFrame(cols, [i \in DOMAIN d.rows |-> widen(d.rows[i])] \o << widen(row) >>)

----------------------------------------------------------------------------
(* Stored payloads and the Excel encoding. *)

Missing == [kind |-> "missing", columns |-> << >>, rows |-> << >>]
Corrupt == [kind |-> "corrupt", columns |-> << >>, rows |-> << >>]
Table(columns, rows) == [kind |-> "table", columns |-> columns, rows |-> rows]

\* openpyxl writes an empty string as an empty cell
ExcelCell(v) == IF v = EmptyStr THEN NaN ELSE v

\* df.to_excel(path, index=False): the sheet written for a frame
to_excel(d) ==
    Table(d.columns,
          [i \in DOMAIN d.rows |-> [k \in DOMAIN d.rows[i] |-> ExcelCell(d.rows[i][k])]])

\* pd.read_excel(path) of a readable sheet
read_excel(p) == DataFrame(p.columns, p.rows)

----------------------------------------------------------------------------
(* load_excel_data: the schema normaliser, on each backend.  A load returns  *)
(* the frame and whether a load error was logged.                            *)

LoadResult(d, error) == [df |-> d, error |-> error]

\* pd.to_datetime accepts dates, ISO date strings and empty cells
Parseable(v) == v.t \in {"date", "iso", "nan"}

\* pd.to_datetime(v).date() of a parseable cell (NaT for an empty one)
to_date(v) == IF v.t = "nan" THEN NaN ELSE Date(v.d)

\* v + pd.Timedelta(days=n) of a date cell (NaT stays NaT)
plus_days(v, n) == IF v.t = "nan" THEN NaN ELSE Date(v.d + n)

\* 'Week' in df.columns and 'Week_Start' not in df.columns
IsLegacy(d) == "Week" \in Range(d.columns) /\ "Week_Start" \notin Range(d.columns)

\* for col in cols: if col not in df.columns: df[col] = ''
RECURSIVE FillMissing(_, _, _)
FillMissing(d, cols, i) ==
    IF i > Len(cols) THEN d
    ELSE FillMissing(
            IF cols[i] \in Range(d.columns) THEN d
            ELSE SetCol(d, cols[i], [r \in DOMAIN d.rows |-> EmptyStr]),
            cols, i + 1)

\* data_manager.py:29-33: Week -> Week_Start, Week_End = Week_Start + 6 days
LocalMigrateWeek(d) ==
    LET d1 == SetCol(d, "Week_Start",
                     [i \in DOMAIN d.rows |-> to_date(Col(d, "Week")[i])])
        d2 == SetCol(d1, "Week_End",
                     [i \in DOMAIN d.rows |-> plus_days(Col(d1, "Week_Start")[i], 6)])
    IN  DropCol(d2, "Week")

\* s3_data_manager.py:90-92: Week copied to Week_Start and to Week_End
S3MigrateWeek(d) ==
    LET d1 == SetCol(d, "Week_Start", Col(d, "Week"))
    IN  SetCol(d1, "Week_End", Col(d1, "Week"))

\* the load without the loop that adds the missing columns: df[DB_COLUMNS]
\* raises KeyError for a table that lacks one
DataManager_load_excel_data_NoFill(p) ==
    IF p.kind = "missing" THEN LoadResult(create_empty_dataframe, FALSE)
    ELSE IF p.kind = "corrupt" THEN LoadResult(create_empty_dataframe, TRUE)
    ELSE LET d0 == read_excel(p) IN
         IF IsLegacy(d0) /\ \E i \in DOMAIN d0.rows : ~Parseable(d0.rows[i]["Week"])
         THEN LoadResult(create_empty_dataframe, TRUE)
         ELSE LET d1 == IF IsLegacy(d0) THEN LocalMigrateWeek(d0) ELSE d0
              IN  IF Range(DB_COLUMNS) \subseteq Range(d1.columns)
                  THEN LoadResult(SelectCols(d1, DB_COLUMNS), FALSE)
                  ELSE LoadResult(create_empty_dataframe, TRUE)

\* data_manager.py:19-44
DataManager_load_excel_data(p) ==
    IF p.kind = "missing" THEN LoadResult(create_empty_dataframe, FALSE)
    ELSE IF p.kind = "corrupt" THEN LoadResult(create_empty_dataframe, TRUE)
    ELSE LET d0 == read_excel(p) IN
         IF IsLegacy(d0) /\ \E i \in DOMAIN d0.rows : ~Parseable(d0.rows[i]["Week"])
         THEN LoadResult(create_empty_dataframe, TRUE)
         ELSE LET d1 == IF IsLegacy(d0) THEN LocalMigrateWeek(d0) ELSE d0
              IN  LoadResult(SelectCols(FillMissing(d1, DB_COLUMNS, 1), DB_COLUMNS), FALSE)

\* Outcomes of the S3 requests of one load: head_object (file_exists) or
\* get_object may fail with a ClientError.
S3Faults == {"none", "head", "get"}

\* s3_data_manager.py:139-145
file_exists(p, fault) == fault # "head" /\ p.kind # "missing"

\* s3_data_manager.py:77-108
S3DataManager_load_excel_data(p, fault) ==
    IF ~file_exists(p, fault) THEN LoadResult(s3_create_empty_dataframe, FALSE)
    ELSE IF fault = "get" \/ p.kind = "corrupt"
    THEN LoadResult(s3_create_empty_dataframe, TRUE)
    ELSE LET d0 == read_excel(p)
             d1 == IF IsLegacy(d0) THEN S3MigrateWeek(d0) ELSE d0
         IN  LoadResult(FillMissing(d1, s3_create_empty_dataframe.columns, 1), FALSE)

\* data_manager.load_excel_data(file) on the manager in use
load_excel_data(b, p, fault) ==
    IF b = "s3" THEN S3DataManager_load_excel_data(p, fault)
    ELSE DataManager_load_excel_data(p)

\* The faults a backend can produce: local files raise no ClientError.
Faults(b) == IF b = "s3" THEN S3Faults ELSE {"none"}

\* s3_data_manager.py:30-66: S3DataManager() raises when head_bucket fails
InitFaults == {"bucket"}

\* s3_data_manager.py:269-278: the manager a page gets when use_s3 names b
get_data_manager(b, fault) ==
    IF b = "s3" /\ fault \notin InitFaults THEN "s3" ELSE "local"

\* s3_data_manager.py:281-302 with 168-174 and 212-218: the constructors of
\* the S3 teams-config and team-settings managers only build a client, they
\* never contact the bucket, so they succeed whenever S3 is configured
get_teams_config_manager(b, fault) == IF b = "s3" THEN "s3" ELSE "local"
get_team_settings_manager(b, fault) == IF b = "s3" THEN "s3" ELSE "local"

----------------------------------------------------------------------------
(* The callers of load_excel_data and what they render. *)

\* df[df['Developer_Name'] == dev]
RowsOf(d, dev) == SelectSeq(d.rows, LAMBDA r : r["Developer_Name"] = Str(dev))

\* a column sums (and divides) without error when every cell is a number or NaN
NumericCol(rows, c) == \A i \in DOMAIN rows : rows[i][c].t \in {"num", "nan"}

\* sort_values on a column needs its non-empty cells to be of one type
SortableCol(rows, c) ==
    \A i, j \in DOMAIN rows :
        rows[i][c].t = "nan" \/ rows[j][c].t = "nan" \/ rows[i][c].t = rows[j][c].t

\* app.py:129-148, the sidebar quick stats (its exceptions are caught)
SidebarStats(d, dev) ==
    IF IsEmpty(d) THEN "no_data"
    ELSE IF Len(RowsOf(d, dev)) = 0 THEN "no_entries"
    ELSE IF NumericCol(RowsOf(d, dev), "Efficiency_Gained_Hours") THEN "metrics"
    ELSE "error_shown"

\* the dashboard without its `if engineer_df.empty` early return
EngineerDashboard_NoEmptyCheck(d, dev) ==
    LET rows == IF IsEmpty(d) THEN << >> ELSE RowsOf(d, dev) IN
    IF /\ Len(rows) > 0
       /\ NumericCol(rows, "Efficiency_Gained_Hours")
       /\ NumericCol(rows, "Original_Estimate_Hours")
       /\ \A i \in DOMAIN rows : Parseable(rows[i]["Week_Start"])
       /\ SortableCol(rows, "Week_Start")
    THEN "metrics"
    ELSE "crash"

\* engineer_interface.py:30-31 and 280-354, the "My Data" tab
EngineerDashboard(d, dev) ==
    LET rows == IF IsEmpty(d) THEN << >> ELSE RowsOf(d, dev) IN
    IF Len(rows) = 0 THEN "no_entries"
    ELSE IF /\ NumericCol(rows, "Efficiency_Gained_Hours")
            /\ NumericCol(rows, "Original_Estimate_Hours")
            /\ \A i \in DOMAIN rows : Parseable(rows[i]["Week_Start"])
            /\ SortableCol(rows, "Week_Start")
         THEN "metrics"
    ELSE "crash"

\* admin_interface.py:418-459, the admin dashboard over the team's partition
AdminDashboard(d) ==
    IF IsEmpty(d) THEN "no_data"
    ELSE IF /\ NumericCol(d.rows, "Efficiency_Gained_Hours")
            /\ NumericCol(d.rows, "Original_Estimate_Hours")
         THEN "metrics"
    ELSE "crash"

\* admin_interface.py:544-575, the export of the team's partition
ExportSection(d) == IF IsEmpty(d) THEN "no_data" ELSE "download"

----------------------------------------------------------------------------
(* The metrics the callers compute.  A float is a reduced fraction, NaN or   *)
(* an infinity, so that means of ratios are exact.                          *)

RECURSIVE GCD(_, _)
GCD(a, b) == IF b = 0 THEN a ELSE GCD(b, a % b)

Abs(n) == IF n < 0 THEN -n ELSE n

\* the float num/den, den # 0
Fin(num, den) ==
    LET g == GCD(Abs(num), Abs(den))
        sign == IF den < 0 THEN -1 ELSE 1
    IN  [t |-> "fin", num |-> sign * (num \div g), den |-> sign * (den \div g)]

FNaN == [t |-> "fnan"]
Inf(sign) == [t |-> "inf", sign |-> sign]
NoValue == [t |-> "none"]

\* a division that reports 0 for a zero estimate
RowRatio_ZeroOnZero(gained, estimate) ==
    IF gained.t = "nan" \/ estimate.t = "nan" THEN FNaN
    ELSE IF estimate.n = 0 THEN Fin(0, 1)
    ELSE Fin(gained.n * 100, estimate.n)

\* gained / estimate * 100 of one row, as pandas divides: x/0 is inf, 0/0 and
\* an empty cell are NaN
RowRatio(gained, estimate) ==
    IF gained.t = "nan" \/ estimate.t = "nan" THEN FNaN
    ELSE IF estimate.n = 0
         THEN (IF gained.n = 0 THEN FNaN ELSE Inf(IF gained.n > 0 THEN 1 ELSE -1))
    ELSE Fin(gained.n * 100, estimate.n)

\* the sum of the finite floats of a sequence, from the i-th on
RECURSIVE SumFin(_, _)
SumFin(vals, i) ==
    IF i > Len(vals) THEN Fin(0, 1)
    ELSE LET rest == SumFin(vals, i + 1)
         IN  IF vals[i].t # "fin" THEN rest
             ELSE Fin(vals[i].num * rest.den + rest.num * vals[i].den,
                      vals[i].den * rest.den)

\* Series.mean(): NaN is skipped, an infinity absorbs, opposite infinities
\* give NaN, the mean of nothing is NaN
Mean(vals) ==
    LET kept == SelectSeq(vals, LAMBDA v : v.t # "fnan")
        pos == \E i \in DOMAIN kept : kept[i] = Inf(1)
        neg == \E i \in DOMAIN kept : kept[i] = Inf(-1)
        total == SumFin(kept, 1)
    IN  IF kept = << >> \/ (pos /\ neg) THEN FNaN
        ELSE IF pos THEN Inf(1)
        ELSE IF neg THEN Inf(-1)
        ELSE Fin(total.num, total.den * Len(kept))

\* sum(gained) / sum(estimate) * 100 in place of the mean of the row ratios
avg_efficiency_RatioOfSums(rows) ==
    LET g == SumFin([i \in DOMAIN rows |->
                       Fin(IF rows[i]["Efficiency_Gained_Hours"].t = "num"
                           THEN rows[i]["Efficiency_Gained_Hours"].n ELSE 0, 1)], 1)
        e == SumFin([i \in DOMAIN rows |->
                       Fin(IF rows[i]["Original_Estimate_Hours"].t = "num"
                           THEN rows[i]["Original_Estimate_Hours"].n ELSE 0, 1)], 1)
    IN  RowRatio(Num(g.num), Num(e.num))

\* engineer_interface.py:296-297, admin_interface.py:454-455 and 472-473:
\* (df['Efficiency_Gained_Hours'] / df['Original_Estimate_Hours'] * 100).mean()
avg_efficiency(rows) ==
    Mean([i \in DOMAIN rows |->
            RowRatio(rows[i]["Efficiency_Gained_Hours"],
                     rows[i]["Original_Estimate_Hours"])])

\* admin_interface.py:456 and 477: (df['Copilot_Used'] == 'Yes').mean() * 100
copilot_usage(rows) ==
    LET yes == SelectSeq(rows, LAMBDA r : r["Copilot_Used"] = Str("Yes"))
    IN  IF rows = << >> THEN FNaN ELSE Fin(Len(yes) * 100, Len(rows))

\* engineer_interface.py:284-298: the Average Efficiency of the "My Data" tab
EngineerAverage(d, dev) ==
    LET rows == IF IsEmpty(d) THEN << >> ELSE RowsOf(d, dev) IN
    IF /\ Len(rows) > 0
       /\ NumericCol(rows, "Efficiency_Gained_Hours")
       /\ NumericCol(rows, "Original_Estimate_Hours")
    THEN avg_efficiency(rows)
    ELSE NoValue

\* admin_interface.py:446-457: team_stats[team_name] of _aggregate_team_data
TeamStats(d) ==
    IF AdminDashboard(d) = "metrics"
    THEN [avg_efficiency |-> avg_efficiency(d.rows),
          copilot_usage |-> copilot_usage(d.rows)]
    ELSE [avg_efficiency |-> NoValue, copilot_usage |-> NoValue]

\* admin_interface.py:460-483: _render_key_metrics(combined_df), the frames
\* of all teams concatenated
KeyMetrics(d) ==
    IF AdminDashboard(d) = "metrics"
    THEN [avg_efficiency |-> avg_efficiency(d.rows),
          copilot_usage |-> copilot_usage(d.rows)]
    ELSE [avg_efficiency |-> NoValue, copilot_usage |-> NoValue]

----------------------------------------------------------------------------
(* Team names and partition files.  A name is a sequence of characters, so   *)
(* that str.replace is modelled character by character.                      *)

\* the names typed in Create Team: "a", "a b" and "a_b"
TeamNames == {<< "a" >>, << "a", " ", "b" >>, << "a", "_", "b" >>}

\* team_name.replace(' ', '_')
replace_space(name) == [i \in DOMAIN name |-> IF name[i] = " " THEN "_" ELSE name[i]]

\* utils.py:44-46
get_team_excel_file(team_name) ==
    << "efficiency_data_" >> \o replace_space(team_name) \o << ".xlsx" >>

\* ', '.join(selected_areas) if selected_areas else ''
Joined(areas) == IF areas = << >> THEN EmptyStr ELSE [t |-> "str", joined |-> areas]

\* a str cell holding a team name
TeamStr(team_name) == [t |-> "str", cs |-> team_name]

\* The team and the developers of the engineer sessions of the model.
TeamA == << "a" >>
Developers == {"dev1", "dev2"}
PartitionFiles == {get_team_excel_file(TeamA)}

----------------------------------------------------------------------------
(* The stored tables a partition may hold when the program starts: written   *)
(* by an earlier version (legacy 'Week' layout, as sample_data_generator.py  *)
(* writes it), by this version, or edited by hand.                           *)

AllSubsetsUpTo(S, n) == {A \in SUBSET S : Cardinality(A) <= n}

CanonicalLayouts ==
    {SelectSeq(DB_COLUMNS, LAMBDA k : k \notin A) :
        A \in AllSubsetsUpTo(Range(DB_COLUMNS), MaxAbsent)}

\* sample_data_generator.py:64-83 (the columns the tracker knows, and one it does not)
LegacyLayout ==
    << "Week", "Story_ID", "Developer_Name", "Team_Name", "Technology",
       "Original_Estimate_Hours", "Efficiency_Gained_Hours", "Copilot_Used",
       "Category", "Notes_Observations" >>

ExtraLayout == DB_COLUMNS \o << "Technology" >>

ReorderedLayout == [i \in DOMAIN DB_COLUMNS |-> DB_COLUMNS[Len(DB_COLUMNS) + 1 - i]]

Layouts ==
    CanonicalLayouts \cup {LegacyLayout, << "Week", "Story_ID" >>, ExtraLayout,
                           ReorderedLayout}

SeedRows ==
    { [Week |-> IsoStr(0), Week_Start |-> IsoStr(0), Week_End |-> IsoStr(6),
       Story_ID |-> Str("ENG-1"), Developer_Name |-> Str("dev1"),
       Team_Name |-> TeamStr(TeamA), Technology |-> Str("Python"),
       Original_Estimate_Hours |-> Num(10), Efficiency_Gained_Hours |-> Num(3),
       Copilot_Used |-> Str("Yes"), Category |-> Str("Feature Development"),
       Areas_of_Efficiency |-> Joined(<< "Code Generation" >>),
       Notes_Observations |-> NaN],
      [Week |-> Date(7), Week_Start |-> Date(7), Week_End |-> Date(13),
       Story_ID |-> Str("ENG-2"), Developer_Name |-> Str("dev1"),
       Team_Name |-> TeamStr(TeamA), Technology |-> Str("Go"),
       Original_Estimate_Hours |-> Num(5), Efficiency_Gained_Hours |-> Num(0),
       Copilot_Used |-> Str("No"), Category |-> Str("Bug Fixes"),
       Areas_of_Efficiency |-> NaN, Notes_Observations |-> Str("fixed by hand")],
      [Week |-> Str("week 3"), Week_Start |-> Date(14), Week_End |-> Date(20),
       Story_ID |-> Str("ENG-3"), Developer_Name |-> Str("dev2"),
       Team_Name |-> TeamStr(TeamA), Technology |-> Str("Java"),
       Original_Estimate_Hours |-> Num(0), Efficiency_Gained_Hours |-> Num(2),
       Copilot_Used |-> Str("No"), Category |-> Str("Testing"),
       Areas_of_Efficiency |-> NaN, Notes_Observations |-> NaN],
      [Week |-> Date(14), Week_Start |-> Date(14), Week_End |-> Date(20),
       Story_ID |-> Str("ENG-4"), Developer_Name |-> Str("dev2"),
       Team_Name |-> TeamStr(TeamA), Technology |-> Str("Java"),
       Original_Estimate_Hours |-> Num(0), Efficiency_Gained_Hours |-> Num(0),
       Copilot_Used |-> NaN, Category |-> Str("Testing"),
       Areas_of_Efficiency |-> NaN, Notes_Observations |-> NaN] }

Restrict(row, layout) == [k \in Range(layout) |-> row[k]]

SeqsUpTo(S, n) == UNION {[1..m -> S] : m \in 0..n}

StoredTables ==
    {Table(layout, [i \in DOMAIN rows |-> Restrict(rows[i], layout)]) :
        layout \in Layouts, rows \in SeqsUpTo(SeedRows, MaxStoredRows)}
    \cup {Table(<< >>, << >>)}

StoredPayloads == {Missing, Corrupt} \cup StoredTables

----------------------------------------------------------------------------
(* Team settings: categories, efficiency areas and the category -> areas    *)
(* mapping, stored as team_settings.xlsx locally and team_settings.json in  *)
(* S3.  A dict is a function; the empty dict is << >>.                      *)

\* config.py:31-61
DEFAULT_SETTINGS ==
    [categories |-> <<"Feature Development", "Bug Fixes", "Code Review", "Testing",
                      "Documentation", "Refactoring", "API Development",
                      "Database Work">>,
     efficiency_areas |-> <<"Code Generation", "Debugging", "Code Completion",
                            "Test Writing", "Documentation", "Refactoring",
                            "API Design", "Query Optimization">>,
     category_efficiency_mapping |->
        ("Feature Development" :> <<"Code Generation", "API Design", "Code Completion", "Documentation">>)
     @@ ("Bug Fixes" :> <<"Debugging", "Code Analysis", "Test Writing", "Code Completion">>)
     @@ ("Code Review" :> <<"Code Analysis", "Code Completion", "Documentation", "Refactoring">>)
     @@ ("Testing" :> <<"Test Writing", "Code Generation", "Test Data Creation", "Debugging">>)
     @@ ("Documentation" :> <<"Documentation", "Code Generation", "API Design", "Code Completion">>)
     @@ ("Refactoring" :> <<"Refactoring", "Code Analysis", "Code Generation", "Code Completion">>)
     @@ ("API Development" :> <<"API Design", "Code Generation", "Documentation", "Test Writing">>)
     @@ ("Database Work" :> <<"Query Optimization", "Code Generation", "Documentation", "Debugging">>)]

\* s3_data_manager.py:252-266
S3TeamSettingsManager_get_default_settings ==
    [categories |-> <<"Feature Development", "Bug Fixes", "Code Review", "Testing",
                      "Documentation", "Refactoring", "API Development",
                      "Database Work">>,
     efficiency_areas |-> <<"Code Generation", "Debugging", "API Design", "Test Writing",
                            "Code Completion", "Documentation", "Refactoring",
                            "Code Analysis", "Query Optimization",
                            "Test Data Creation">>,
     category_efficiency_mapping |-> << >>]

\* engineer_interface.py:85-94, the mapping written into the entry form
default_mapping ==
       ("Feature Development" :> <<"Code Generation", "API Design", "Code Completion", "Documentation">>)
    @@ ("Bug Fixes" :> <<"Debugging", "Code Analysis", "Test Writing", "Code Completion">>)
    @@ ("Code Review" :> <<"Code Analysis", "Code Completion", "Documentation", "Refactoring">>)
    @@ ("Testing" :> <<"Test Writing", "Code Generation", "Test Data Creation", "Debugging">>)
    @@ ("Documentation" :> <<"Documentation", "Code Generation", "API Design", "Code Completion">>)
    @@ ("Refactoring" :> <<"Refactoring", "Code Analysis", "Code Generation", "Code Completion">>)
    @@ ("API Development" :> <<"API Design", "Code Generation", "Documentation", "Test Writing">>)
    @@ ("Database Work" :> <<"Query Optimization", "Code Generation", "Documentation", "Debugging">>)

\* dict.get(key, [])
get(dict, key) == IF key \in DOMAIN dict THEN dict[key] ELSE << >>

\* the dict restricted to some of its keys
WithKeys(dict, keys) == IF keys = {} THEN << >> ELSE [k \in keys |-> dict[k]]

\* dict[key] = value
Assign(dict, key, value) ==
    [k \in DOMAIN dict \cup {key} |-> IF k = key THEN value ELSE dict[k]]

MissingSettings == [kind |-> "missing"]

\* data_manager.py:188-228: the four padded columns of team_settings.xlsx
TeamSettingsManager_save_team_settings(settings) ==
    [kind |-> "xlsx",
     Categories |-> settings.categories,
     Efficiency_Areas |-> settings.efficiency_areas,
     Mapping |-> settings.category_efficiency_mapping]

\* data_manager.py:132-186: without a file the lists of DEFAULT_SETTINGS
\* themselves (a shallow copy) and an empty mapping; from a file the non-blank
\* cells, a mapping row only when its areas are not blank, and copies of the
\* default lists in place of an empty column
TeamSettingsManager_load_team_settings(file, defaults) ==
    IF file.kind = "missing"
    THEN [settings |-> [categories |-> defaults.categories,
                        efficiency_areas |-> defaults.efficiency_areas,
                        category_efficiency_mapping |-> << >>],
          aliased |-> TRUE]
    ELSE [settings |->
            [categories |-> IF file.Categories = << >>
                            THEN defaults.categories ELSE file.Categories,
             efficiency_areas |-> IF file.Efficiency_Areas = << >>
                                  THEN defaults.efficiency_areas
                                  ELSE file.Efficiency_Areas,
             category_efficiency_mapping |->
                WithKeys(file.Mapping,
                         {c \in DOMAIN file.Mapping : file.Mapping[c] # << >>})],
          aliased |-> FALSE]

\* s3_data_manager.py:235-250: json.dumps of the settings
S3TeamSettingsManager_save_team_settings(settings) ==
    [kind |-> "json", settings |-> settings]

\* s3_data_manager.py:220-233: the stored dict, or fresh defaults when the
\* object is absent or cannot be fetched
S3TeamSettingsManager_load_team_settings(file, fault) ==
    IF fault # "none" \/ file.kind = "missing"
    THEN [settings |-> S3TeamSettingsManager_get_default_settings, aliased |-> FALSE]
    ELSE [settings |-> file.settings, aliased |-> FALSE]

load_team_settings(b, file, defaults, fault) ==
    IF b = "s3" THEN S3TeamSettingsManager_load_team_settings(file, fault)
    ELSE TeamSettingsManager_load_team_settings(file, defaults)

\* the stored settings after save_team_settings, which returns write = "ok"
save_team_settings(b, file, settings, write) ==
    IF write # "ok" THEN file
    ELSE IF b = "s3" THEN S3TeamSettingsManager_save_team_settings(settings)
    ELSE TeamSettingsManager_save_team_settings(settings)

\* engineer_interface.py:110-120: the areas offered for a category
available_areas(settings, category) ==
    LET team_mapping == settings.category_efficiency_mapping IN
    IF category \in DOMAIN team_mapping /\ team_mapping[category] # << >>
    THEN team_mapping[category]
    ELSE IF category \in DOMAIN default_mapping THEN default_mapping[category]
    ELSE settings.efficiency_areas

NoEntry == [rendered |-> FALSE]

----------------------------------------------------------------------------
(* Sessions of the engineer view. *)

Sessions == {1, 2}
SessionDev(s) == IF s = 1 THEN "dev1" ELSE "dev2"
SessionTeam(s) == TeamA

NotLoaded == [called |-> FALSE, fault |-> "none", manager |-> "none",
              df |-> create_empty_dataframe, error |-> FALSE]
NotRendered == [rendered |-> FALSE, dev |-> "dev1", sidebar |-> "no_data",
                dashboard |-> "no_entries", admin |-> "no_data", export |-> "no_data",
                engineer_avg |-> NoValue,
                team_stats |-> [avg_efficiency |-> NoValue, copilot_usage |-> NoValue],
                key_metrics |-> [avg_efficiency |-> NoValue, copilot_usage |-> NoValue]]
NoSubmission == [submitted |-> FALSE]
\* `clicked` is history: the teams whose "Delete Team" was clicked since they
\* were created
NoAdminAction == [action |-> "none", team |-> << >>, message |-> "none", clicked |-> {}]
\* no 'dev', 'team' or 'admin' parameter in the URL; an absent parameter and an
\* empty one are both the empty value
NoToken == [t |-> "none"]
NoParams == [dev |-> "", team |-> << >>, admin |-> FALSE, token |-> NoToken]
NoPage == [view |-> "none", config |-> << >>, login |-> "none", password |-> "",
           wrong_attempts |-> 0]
NoMessages == [errors |-> << >>, success |-> FALSE, failure |-> FALSE]

\* The state of the sessions and of the admin page before anything ran.
InitSessions ==
    /\ pc = [s \in Sessions |-> "idle"]
    /\ df = [s \in Sessions |-> create_empty_dataframe]
    /\ loadErr = [s \in Sessions |-> FALSE]
    /\ loadedAt = [s \in Sessions |-> 0]
    /\ form_version = [s \in Sessions |-> 0]
    /\ ui = [s \in Sessions |-> NoMessages]
    /\ sub = [s \in Sessions |-> NoSubmission]
    /\ writes = 0
    /\ teams_config = << >>
    /\ confirm_delete = {}
    /\ admin = NoAdminAction
    /\ admin_authenticated = FALSE
    /\ query_params = NoParams
    /\ page = NoPage
    /\ settings_file = MissingSettings
    /\ default_settings = [categories |-> DEFAULT_SETTINGS.categories,
                           efficiency_areas |-> DEFAULT_SETTINGS.efficiency_areas]
    /\ settings_saves = 0
    /\ entry = NoEntry

adminVars == <<teams_config, teams_file, confirm_delete, admin>>
accessVars == <<admin_authenticated, query_params, page>>
settingsVars == <<settings_file, default_settings, settings_saves, entry>>
sessionVars == <<pc, df, loadErr, loadedAt, form_version, ui, sub, writes>>

----------------------------------------------------------------------------
(* SpecLoad: one partition holding any stored payload, loaded through the   *)
(* manager in use and rendered by each caller.                               *)

\* The local files of a deployment configured for S3: none, or a partition
\* written while the tracker ran on the local medium.
LocalAlternatives ==
    {Missing}
    \cup {Table(DB_COLUMNS, << Restrict(row, DB_COLUMNS) >>) :
            row \in {r \in SeedRows : r.Story_ID = Str("ENG-1")}}

InitLoad ==
    /\ backend \in {"local", "s3"}
    /\ \E p \in StoredPayloads : store = [f \in PartitionFiles |-> p]
    /\ \E p \in (IF backend = "s3" THEN LocalAlternatives ELSE {Missing}) :
          local_files = [f \in PartitionFiles |-> p]
    /\ loaded = NotLoaded
    /\ views = NotRendered
    /\ InitSessions
    /\ teams_file = Missing

\* the files the manager m works on
Medium(m) == IF m = backend THEN store ELSE local_files

\* get_data_manager() and one call of data_manager.load_excel_data(team_file)
LoadPartition(fault) ==
    /\ fault \in Faults(backend) \cup (IF backend = "s3" THEN InitFaults ELSE {})
    /\ LET m == get_data_manager(backend, fault)
           r == load_excel_data(m, Medium(m)[get_team_excel_file(TeamA)], fault)
       IN  loaded' = [called |-> TRUE, fault |-> fault, manager |-> m,
                      df |-> r.df, error |-> r.error]
    /\ views' = NotRendered
    /\ UNCHANGED <<backend, local_files, settingsVars, accessVars, store, sessionVars, adminVars>>

\* the callers render the frame the load returned
RenderCallers(dev) ==
    /\ loaded.called
    /\ ~views.rendered
    /\ views' = [rendered |-> TRUE, dev |-> dev,
                 sidebar |-> SidebarStats(loaded.df, dev),
                 dashboard |-> EngineerDashboard(loaded.df, dev),
                 admin |-> AdminDashboard(loaded.df),
                 export |-> ExportSection(loaded.df),
                 engineer_avg |-> EngineerAverage(loaded.df, dev),
                 team_stats |-> TeamStats(loaded.df),
                 key_metrics |-> KeyMetrics(loaded.df)]
    /\ UNCHANGED <<backend, local_files, settingsVars, accessVars, store, loaded, sessionVars, adminVars>>

NextLoad ==
    \/ \E fault \in S3Faults \cup InitFaults : LoadPartition(fault)
    \/ \E dev \in Developers : RenderCallers(dev)

SpecLoad == InitLoad /\ [][NextLoad]_vars

----------------------------------------------------------------------------
(* Claims about load_excel_data, checked under SpecLoad. *)

\* the payload the load read: the one of the medium of its manager
StoredPartition ==
    IF loaded.called THEN Medium(loaded.manager)[get_team_excel_file(TeamA)]
    ELSE store[get_team_excel_file(TeamA)]

\* the calendar day a date cell or an ISO date string stands for
IsDay(v) == v.t \in {"date", "iso"}

\* C1: when load_excel_data reads a table with a 'Week' column and no
\* 'Week_Start' column, every returned row has Week_Start equal to the row's
\* Week date W and Week_End equal to W + 6 days, on the local and on the S3
\* backend.
C1_LegacyWeekMigration ==
    (loaded.called /\ StoredPartition.kind = "table" /\ IsLegacy(StoredPartition))
    => \A i \in DOMAIN loaded.df.rows :
          LET W == StoredPartition.rows[i]["Week"]
              r == loaded.df.rows[i]
          IN  IsDay(W) =>
                /\ IsDay(r["Week_Start"]) /\ r["Week_Start"].d = W.d
                /\ IsDay(r["Week_End"]) /\ r["Week_End"].d = W.d + 6

\* C8: a load of a partition that does not exist returns an empty sequence of
\* rows with the canonical columns and signals no error, on both backends.
C8_MissingPartitionLoadsEmpty ==
    (loaded.called /\ StoredPartition.kind = "missing")
    => /\ loaded.df = DataFrame(DB_COLUMNS, << >>)
       /\ ~loaded.error

C8_Witness ==
    loaded.called /\ StoredPartition.kind = "missing" /\ loaded.manager = "s3"

\* C9: a corrupt stored payload never crashes a caller: load_excel_data returns
\* no rows, logs the load error when it read the payload, and the sidebar
\* stats, the engineer dashboard, the admin dashboard and the export all
\* render their ordinary 'no data' state.
C9_CorruptPayloadIsNoData ==
    (loaded.called /\ StoredPartition.kind = "corrupt")
    => /\ loaded.df.rows = << >>
       /\ loaded.fault = "none" => loaded.error
       /\ views.rendered =>
            /\ views.sidebar = "no_data"
            /\ views.dashboard = "no_entries"
            /\ views.admin = "no_data"
            /\ views.export = "no_data"

C9_Witness ==
    /\ loaded.called /\ StoredPartition.kind = "corrupt"
    /\ loaded.error /\ views.rendered

\* A legacy Week cell that pd.to_datetime cannot parse makes the local load
\* fail as a whole: that is a load error, not a missing column.
LegacyParseError ==
    /\ loaded.manager = "local" /\ IsLegacy(StoredPartition)
    /\ \E i \in DOMAIN StoredPartition.rows :
          ~Parseable(StoredPartition.rows[i]["Week"])

\* the load read a stored table, with no failed request and no parse error
LoadsWithoutError ==
    /\ loaded.called /\ loaded.fault = "none"
    /\ StoredPartition.kind = "table"
    /\ ~LegacyParseError

----------------------------------------------------------------------------
(* The engineer entry form: _render_data_entry and _save_entry. *)

\* date.weekday(), day 0 being a Monday
weekday(d) == d % 7

\* a week that starts at the date given, whatever its weekday
get_week_dates_NoAlign(date) == << date, date + 6 >>

\* utils.py:12-16
get_week_dates(date) ==
    LET monday == date - weekday(date) IN << monday, monday + 6 >>

\* The values a user may have put into the widgets before pressing Save Entry.
FormDates == {9, 13}
StoryIds == {"", "ENG-7"}
Estimates == {0, 8}
AreaChoices == {<< >>, << "Code Generation" >>}
Gains == {2}
NotesTexts == {""}
Category == "Feature Development"

\* validation that stops at the first violated rule (an elif chain)
ValidationErrors_FirstOnly(story_id, original_estimate, copilot_used, selected_areas) ==
    IF story_id = "" THEN << "Story ID is required" >>
    ELSE IF original_estimate <= 0
    THEN << "Original Estimate must be greater than 0" >>
    ELSE IF copilot_used = "Yes" /\ selected_areas = << >>
    THEN << "Please select at least one efficiency area when Copilot was used" >>
    ELSE << >>

\* validation without the rule on the estimate
ValidationErrors_NoEstimateRule(story_id, original_estimate, copilot_used, selected_areas) ==
    (IF story_id = "" THEN << "Story ID is required" >> ELSE << >>)
    \o (IF copilot_used = "Yes" /\ selected_areas = << >>
        THEN << "Please select at least one efficiency area when Copilot was used" >>
        ELSE << >>)

\* engineer_interface.py:198-211: error_messages; validation_passed is that
\* the list stayed empty
ValidationErrors(story_id, original_estimate, copilot_used, selected_areas) ==
    (IF story_id = "" THEN << "Story ID is required" >> ELSE << >>)
    \o (IF original_estimate <= 0
        THEN << "Original Estimate must be greater than 0" >> ELSE << >>)
    \o (IF copilot_used = "Yes" /\ selected_areas = << >>
        THEN << "Please select at least one efficiency area when Copilot was used" >>
        ELSE << >>)

\* engineer_interface.py:252-264
new_row(s, monday, sunday, story_id, original_estimate, efficiency_gained, copilot_used, category, selected_areas, notes) ==
    [Week_Start |-> IsoStr(monday), Week_End |-> IsoStr(sunday),
     Story_ID |-> Str(story_id), Developer_Name |-> Str(SessionDev(s)),
     Team_Name |-> TeamStr(SessionTeam(s)),
     Original_Estimate_Hours |-> Num(original_estimate),
     Efficiency_Gained_Hours |-> Num(efficiency_gained),
     Copilot_Used |-> Str(copilot_used), Category |-> Str(category),
     Areas_of_Efficiency |-> Joined(selected_areas),
     Notes_Observations |-> Str(notes)]

\* What a write can do: succeed, fail leaving the medium as it was, or (a
\* local file, opened and then not completed) fail leaving a torn file.
WriteOutcomes(b) == IF b = "s3" THEN {"ok", "fail"} ELSE {"ok", "fail", "torn"}

\* a save that swallows the exception and reports success
save_to_excel_AlwaysTrue(outcome) == TRUE

\* data_manager.py:46-58, s3_data_manager.py:110-137: the value returned
save_to_excel(outcome) == outcome = "ok"

\* the payload the medium holds after save_to_excel(d, file)
StoredAfter(old, d, outcome) ==
    IF outcome = "ok" THEN to_excel(d)
    ELSE IF outcome = "torn" THEN Corrupt
    ELSE old

\* the canonical fields of a row, as spreadsheet cells
Canon(row) == [c \in Range(DB_COLUMNS) |-> ExcelCell(row[c])]
CanonRows(rows) == [i \in DOMAIN rows |-> Canon(rows[i])]

\* the rows the partition holds: what a load with no failed request returns
Held(p) == CanonRows(load_excel_data(backend, p, "none").df.rows)

TeamFile(s) == get_team_excel_file(SessionTeam(s))

\* A script run starts: engineer_interface.py:47 loads the team's partition.
Rerun(s, fault) ==
    /\ pc[s] \in {"idle", "done"}
    /\ fault \in Faults(backend)
    /\ LET r == load_excel_data(backend, store[TeamFile(s)], fault) IN
         /\ df' = [df EXCEPT ![s] = r.df]
         /\ loadErr' = [loadErr EXCEPT ![s] = r.error \/ fault # "none"]
    /\ loadedAt' = [loadedAt EXCEPT ![s] = writes]
    /\ ui' = [ui EXCEPT ![s] = NoMessages]
    /\ sub' = [sub EXCEPT ![s] = NoSubmission]
    /\ pc' = [pc EXCEPT ![s] = "form"]
    /\ UNCHANGED <<backend, local_files, settingsVars, accessVars, store, loaded, views, form_version, writes, adminVars>>

\* The frame loaded by a run is a local of that run: it is gone when the run ends.
RunEnds(s) ==
    /\ df' = [df EXCEPT ![s] = create_empty_dataframe]
    /\ loadErr' = [loadErr EXCEPT ![s] = FALSE]
    /\ loadedAt' = [loadedAt EXCEPT ![s] = 0]

\* The run ends with no button pressed.
EndRun(s) ==
    /\ pc[s] = "form"
    /\ pc' = [pc EXCEPT ![s] = "idle"]
    /\ RunEnds(s)
    /\ UNCHANGED <<backend, local_files, settingsVars, accessVars, store, loaded, views, form_version, ui, sub, writes,
                   adminVars>>

\* engineer_interface.py:191-194: "Clear Form"
ClearForm(s) ==
    /\ pc[s] = "form"
    /\ form_version[s] < MaxClears
    /\ form_version' = [form_version EXCEPT ![s] = @ + 1]
    /\ pc' = [pc EXCEPT ![s] = "idle"]
    /\ RunEnds(s)
    /\ UNCHANGED <<backend, local_files, settingsVars, accessVars, store, loaded, views, ui, sub, writes, adminVars>>

\* the hours taken from a stale "Time Saved" widget
efficiency_gained_Stale(copilot_used, gained_input) == gained_input

\* engineer_interface.py:165-178: the "Time Saved" input exists only for 'Yes'
efficiency_gained(copilot_used, gained_input) ==
    IF copilot_used = "Yes" THEN gained_input ELSE 0

\* engineer_interface.py:196-278: "Save Entry" was pressed in this run.
SubmitEntry(s, week_date, story_id, original_estimate, copilot_used, areas_checked, gained_input, notes, outcome) ==
    LET selected_areas == IF copilot_used = "Yes" THEN areas_checked ELSE << >>
        week == get_week_dates(week_date)
        error_messages ==
            ValidationErrors(story_id, original_estimate, copilot_used, selected_areas)
        validation_passed == error_messages = << >>
        row == new_row(s, week[1], week[2], story_id, original_estimate,
                       efficiency_gained(copilot_used, gained_input), copilot_used,
                       Category, selected_areas, notes)
        write == IF validation_passed THEN outcome ELSE "none"
        success == validation_passed /\ save_to_excel(outcome)
        old == store[TeamFile(s)]
        new == IF validation_passed
               THEN StoredAfter(old, ConcatRow(df[s], row), outcome) ELSE old
    IN  /\ pc[s] = "form"
        /\ outcome \in WriteOutcomes(backend)
        /\ write \in {"ok", "torn"} => writes < MaxWrites
        /\ store' = [store EXCEPT ![TeamFile(s)] = new]
        /\ writes' = IF write \in {"ok", "torn"} THEN writes + 1 ELSE writes
        /\ ui' = [ui EXCEPT ![s] =
                    [errors |-> error_messages,
                     success |-> success,
                     failure |-> validation_passed /\ ~success]]
        /\ form_version' = [form_version EXCEPT ![s] = IF success THEN @ + 1 ELSE @]
        /\ sub' = [sub EXCEPT ![s] =
                    [submitted |-> TRUE, story_id |-> story_id,
                     original_estimate |-> original_estimate,
                     copilot_used |-> copilot_used, selected_areas |-> selected_areas,
                     week_date |-> week_date, areas_checked |-> areas_checked,
                     gained_input |-> gained_input,
                     write |-> write, returned |-> success, touched |-> new # old,
                     form_version_before |-> form_version[s],
                     loadErr |-> loadErr[s], loadedAt |-> loadedAt[s],
                     version |-> writes',
                     base |-> IF write = "ok" THEN CanonRows(df[s].rows) ELSE << >>,
                     heldBefore |-> IF write = "ok" THEN Held(old) ELSE << >>,
                     after |-> IF write = "ok" THEN Held(new) ELSE << >>,
                     new_row |-> Canon(row)]]
        /\ pc' = [pc EXCEPT ![s] = "done"]
        /\ RunEnds(s)
        /\ UNCHANGED <<backend, local_files, settingsVars, accessVars, loaded, views, adminVars>>

\* The partition of the team when the sessions start.
InitialPartitions ==
    {Missing, Corrupt}
    \cup {Table(layout, << Restrict(row, layout) >>) :
            layout \in {DB_COLUMNS, LegacyLayout},
            row \in {r \in SeedRows : r.Story_ID = Str("ENG-1")}}

(* Spec: two engineers of one team submit valid entries concurrently. *)

Init ==
    /\ backend \in {"local", "s3"}
    /\ \E p \in InitialPartitions : store = [f \in PartitionFiles |-> p]
    /\ local_files = [f \in PartitionFiles |-> Missing]
    /\ loaded = NotLoaded
    /\ views = NotRendered
    /\ InitSessions
    /\ teams_file = Missing

Next ==
    \/ \E s \in Sessions, fault \in S3Faults : Rerun(s, fault)
    \/ \E s \in Sessions : EndRun(s)
    \/ \E s \in Sessions, week_date \in FormDates, copilot_used \in {"Yes", "No"},
          gained_input \in Gains, notes \in NotesTexts,
          outcome \in {"ok", "fail", "torn"} :
            SubmitEntry(s, week_date, "ENG-7", 8, copilot_used,
                        << "Code Generation" >>, gained_input, notes, outcome)

Spec == Init /\ [][Next]_vars

(* SpecForm: one engineer fills the form with any values, valid or not. *)

FormSessions == {1}

NextForm ==
    \/ \E s \in FormSessions, fault \in S3Faults : Rerun(s, fault)
    \/ \E s \in FormSessions : EndRun(s)
    \/ \E s \in FormSessions : ClearForm(s)
    \/ \E s \in FormSessions, week_date \in FormDates, story_id \in StoryIds,
          original_estimate \in Estimates, copilot_used \in {"Yes", "No"},
          areas_checked \in AreaChoices, gained_input \in Gains,
          notes \in NotesTexts, outcome \in {"ok", "fail", "torn"} :
            SubmitEntry(s, week_date, story_id, original_estimate, copilot_used,
                        areas_checked, gained_input, notes, outcome)

SpecForm == Init /\ [][NextForm]_vars

----------------------------------------------------------------------------
(* Claims about appending entries, checked under Spec. *)

Count(rows, r) == Cardinality({i \in DOMAIN rows : rows[i] = r})

\* the save of session s was sequential: nothing wrote to the partition
\* between the load of its run and its own write
Sequential(s) == sub[s].loadedAt + 1 = sub[s].version

\* C2: for every entry saved successfully through _save_entry, a load of the
\* partition right after the save returns every row the partition held before
\* the save plus exactly the new row, no field changed (fields compared as
\* spreadsheet cells), after any sequence of sequential loads and appends,
\* also when the load that preceded the save hit a load error.
C2_AppendRoundTrip ==
    \A s \in Sessions :
        (sub[s].submitted /\ sub[s].returned /\ Sequential(s))
        => sub[s].after = sub[s].heldBefore \o << sub[s].new_row >>

\* session t saved after session s loaded and before session s saved
SavedBetween(t, s) ==
    /\ t # s
    /\ sub[s].submitted /\ sub[s].write = "ok"
    /\ sub[t].submitted /\ sub[t].write = "ok"
    /\ sub[s].loadedAt < sub[t].version
    /\ sub[t].version < sub[s].version

\* C4: append is not safe under concurrent writers.  When a session saves an
\* entry after another session saved one since its load, the partition it
\* leaves holds its own new entry and not the other session's (it holds the
\* frame it had loaded plus its own row), and the save is reported as a
\* success: nothing prevents or reports the lost update.
C4_LostUpdate ==
    \A s, t \in Sessions :
        SavedBetween(t, s)
        => /\ sub[s].after = sub[s].base \o << sub[s].new_row >>
           /\ Count(sub[s].after, sub[t].new_row) = Count(sub[s].base, sub[t].new_row)
           /\ sub[s].returned /\ ui[s].success
           /\ ~ui[s].failure /\ ui[s].errors = << >>

\* load1, load2, save1, save2 on a partition both sessions read without error
C4_Witness ==
    \E s, t \in Sessions :
        /\ SavedBetween(t, s)
        /\ ~sub[s].loadErr /\ ~sub[t].loadErr
        /\ sub[s].loadedAt = sub[t].loadedAt
        /\ Len(sub[s].base) > 0
        /\ Count(sub[s].after, sub[t].new_row) = 0
        /\ Count(sub[t].after, sub[t].new_row) = 1

----------------------------------------------------------------------------
(* Claims about one submission of the form, checked under SpecForm. *)

C6_ValidationBeforePersistence ==
    \A s \in Sessions :
        sub[s].submitted
        => \/ /\ sub[s].story_id # ""
              /\ sub[s].original_estimate > 0
              /\ (sub[s].copilot_used = "No" \/ sub[s].selected_areas # << >>)
           \/ (sub[s].write = "none" /\ ~sub[s].touched)

C6_Witness ==
    \E s \in Sessions :
        /\ sub[s].submitted
        /\ sub[s].story_id # "" /\ sub[s].original_estimate = 0
        /\ sub[s].copilot_used = "No"
        /\ ~sub[s].touched
        /\ StoredPartition.kind = "table"

\* the rules a submission violates, by their messages
ViolatedRules(x) ==
    {m \in {"Story ID is required"} : x.story_id = ""}
    \cup {m \in {"Original Estimate must be greater than 0"} : x.original_estimate <= 0}
    \cup {m \in {"Please select at least one efficiency area when Copilot was used"} :
            x.copilot_used = "Yes" /\ x.selected_areas = << >>}

\* C7: validation enumerates all violated rules at once: the set of error
\* messages shown equals the set of rules the submission violates.
C7_AllViolationsShown ==
    \A s \in Sessions :
        sub[s].submitted => Range(ui[s].errors) = ViolatedRules(sub[s])

C7_Witness ==
    \E s \in Sessions :
        /\ sub[s].submitted
        /\ Len(ui[s].errors) = Cardinality(ViolatedRules(sub[s]))
        /\ Cardinality(ViolatedRules(sub[s])) > 2

----------------------------------------------------------------------------
(* The teams configuration and the Team Setup page.  The configuration is a  *)
(* dict from team name to the list of the team's developers; the order of    *)
(* its keys is not modelled.                                                 *)

DevNames == {"", "dev1"}
DevEmails == {""}

\* the order in which save_teams_config visits the teams
TeamOrder == << << "a" >>, << "a", " ", "b" >>, << "a", "_", "b" >> >>

TEAMS_COLUMNS == << "Team_Name", "Developer_Name", "Email", "Access_Link" >>

\* urllib.parse.quote(name)
quote(name) == [i \in DOMAIN name |-> IF name[i] = " " THEN "%20" ELSE name[i]]

\* utils.py:25-34
generate_engineer_link(developer_name, team_name) ==
    [t |-> "str", dev |-> developer_name, team |-> quote(team_name)]

\* data_manager.py:103-117: the rows written for one team
TeamRows(team_name, developers) ==
    IF developers = << >>
    THEN << [Team_Name |-> TeamStr(team_name), Developer_Name |-> EmptyStr,
             Email |-> EmptyStr, Access_Link |-> EmptyStr] >>
    ELSE [i \in DOMAIN developers |->
            [Team_Name |-> TeamStr(team_name),
             Developer_Name |-> developers[i].name,
             Email |-> developers[i].email,
             Access_Link |-> developers[i].link]]

\* data_manager.py:102-117: the rows written for the teams from the i-th on
RECURSIVE ConfigRows(_, _)
ConfigRows(config, i) ==
    IF i > Len(TeamOrder) THEN << >>
    ELSE (IF TeamOrder[i] \in DOMAIN config
          THEN TeamRows(TeamOrder[i], config[TeamOrder[i]]) ELSE << >>)
         \o ConfigRows(config, i + 1)

\* data_manager.py:119-121: pd.DataFrame(rows).to_excel(...)
TeamsSheet(config) ==
    LET rows == ConfigRows(config, 1)
    IN  to_excel(DataFrame(IF rows = << >> THEN << >> ELSE TEAMS_COLUMNS, rows))

\* s3_data_manager.py:194-201: json.dumps(config) put as teams_config.json
Json(config) == [kind |-> "json", columns |-> << >>, rows |-> << >>, config |-> config]

\* data_manager.py:74-92: the dict built from the rows of the sheet
TeamsFromRows(rows) ==
    [team \in {rows[i].Team_Name.cs : i \in DOMAIN rows} |->
        LET members == SelectSeq(rows, LAMBDA r :
                           r.Team_Name.cs = team /\ r.Developer_Name # NaN)
        IN  [i \in DOMAIN members |->
                [name |-> members[i].Developer_Name,
                 email |-> members[i].Email,
                 link |-> members[i].Access_Link]]]

\* data_manager.py:64-97
TeamsConfigManager_load_teams_config(p) ==
    IF p.kind # "table" THEN << >> ELSE TeamsFromRows(read_excel(p).rows)

\* s3_data_manager.py:176-189: a failed request and an unreadable body both
\* give the empty dict
S3TeamsConfigManager_load_teams_config(p, fault) ==
    IF fault # "none" \/ p.kind # "json" THEN << >> ELSE p.config

load_teams_config(b, p, fault) ==
    IF b = "s3" THEN S3TeamsConfigManager_load_teams_config(p, fault)
    ELSE TeamsConfigManager_load_teams_config(p)

\* the requests of a teams load that can fail
TeamsFaults(b) == IF b = "s3" THEN {"none", "get"} ELSE {"none"}

\* data_manager.py:99-125, s3_data_manager.py:191-207: the value returned
save_teams_config(outcome) == outcome = "ok"

\* the stored configuration after save_teams_config(config)
TeamsStoredAfter(old, config, outcome) ==
    IF outcome = "ok" THEN (IF backend = "s3" THEN Json(config) ELSE TeamsSheet(config))
    ELSE IF outcome = "torn" THEN Corrupt
    ELSE old

AdminAction(action, team_name, message) ==
    [action |-> action, team |-> team_name, message |-> message,
     clicked |-> admin.clicked]

\* dict operations
WithTeam(config, team_name, developers) ==
    [t \in DOMAIN config \cup {team_name} |->
        IF t = team_name THEN developers ELSE config[t]]
WithoutTeam(config, team_name) == [t \in DOMAIN config \ {team_name} |-> config[t]]

\* list.pop(i)
Pop(list, i) == SubSeq(list, 1, i - 1) \o SubSeq(list, i + 1, Len(list))

\* "Create Team" without the `team_name not in self.teams_config` test
CreateTeam_NoUniqueCheck(team_name, fault, outcome) ==
    LET config == load_teams_config(backend, teams_file, fault)
        accepted == team_name # << >>
        created == WithTeam(config, team_name, << >>)
    IN  /\ fault \in TeamsFaults(backend)
        /\ outcome \in WriteOutcomes(backend)
        /\ teams_config' = IF accepted THEN created ELSE config
        /\ teams_file' = IF accepted THEN TeamsStoredAfter(teams_file, created, outcome)
                         ELSE teams_file
        /\ admin' = [AdminAction("create_team", team_name,
                        IF team_name = << >> THEN "Team name is required"
                        ELSE IF save_teams_config(outcome) THEN "created"
                        ELSE "Failed to save team configuration")
                       EXCEPT !.clicked = IF accepted THEN @ \ {team_name} ELSE @]
        /\ UNCHANGED <<backend, local_files, settingsVars, accessVars, store, loaded, views, sessionVars, confirm_delete>>

\* admin_interface.py:17-19, 64-87: a run of the admin page in which
\* "Create Team" was pressed
CreateTeam(team_name, fault, outcome) ==
    LET config == load_teams_config(backend, teams_file, fault)
        accepted == team_name # << >> /\ team_name \notin DOMAIN config
        created == WithTeam(config, team_name, << >>)
    IN  /\ fault \in TeamsFaults(backend)
        /\ outcome \in WriteOutcomes(backend)
        /\ teams_config' = IF accepted THEN created ELSE config
        /\ teams_file' = IF accepted THEN TeamsStoredAfter(teams_file, created, outcome)
                         ELSE teams_file
        /\ admin' = [AdminAction("create_team", team_name,
                        IF team_name = << >> THEN "Team name is required"
                        ELSE IF team_name \in DOMAIN config THEN "already exists"
                        ELSE IF save_teams_config(outcome) THEN "created"
                        ELSE "Failed to save team configuration")
                       EXCEPT !.clicked = IF accepted THEN @ \ {team_name} ELSE @]
        /\ UNCHANGED <<backend, local_files, settingsVars, accessVars, store, loaded, views, sessionVars, confirm_delete>>

\* admin_interface.py:17-19, 96-126: "Add Developer" was pressed for a team
AddDeveloper(team_name, dev_name, dev_email, fault, outcome) ==
    LET config == load_teams_config(backend, teams_file, fault)
        developer == [name |-> Str(dev_name), email |-> Str(dev_email),
                      link |-> generate_engineer_link(dev_name, team_name)]
        added == WithTeam(config, team_name, Append(config[team_name], developer))
    IN  /\ fault \in TeamsFaults(backend)
        /\ outcome \in WriteOutcomes(backend)
        /\ team_name \in DOMAIN config
        /\ Len(config[team_name]) < MaxDevs
        /\ teams_config' = IF dev_name # "" THEN added ELSE config
        /\ teams_file' = IF dev_name # "" THEN TeamsStoredAfter(teams_file, added, outcome)
                         ELSE teams_file
        /\ admin' = AdminAction("add_developer", team_name,
                        IF dev_name = "" THEN "Developer name is required"
                        ELSE IF save_teams_config(outcome) THEN "added"
                        ELSE "Failed to save configuration")
        /\ UNCHANGED <<backend, local_files, settingsVars, accessVars, store, loaded, views, sessionVars, confirm_delete>>

\* admin_interface.py:17-19, 129-151: the remove button of the i-th developer
RemoveDeveloper(team_name, i, fault, outcome) ==
    LET config == load_teams_config(backend, teams_file, fault)
        removed == WithTeam(config, team_name, Pop(config[team_name], i))
    IN  /\ fault \in TeamsFaults(backend)
        /\ outcome \in WriteOutcomes(backend)
        /\ team_name \in DOMAIN config
        /\ i \in DOMAIN config[team_name]
        /\ teams_config' = removed
        /\ teams_file' = TeamsStoredAfter(teams_file, removed, outcome)
        /\ admin' = AdminAction("remove_developer", team_name,
                        IF save_teams_config(outcome) THEN "removed"
                        ELSE "Failed to save changes")
        /\ UNCHANGED <<backend, local_files, settingsVars, accessVars, store, loaded, views, sessionVars, confirm_delete>>

\* admin_interface.py:17-19, 171-183: "Delete Team" was pressed for a team
DeleteTeam(team_name, fault, outcome) ==
    LET config == load_teams_config(backend, teams_file, fault)
        confirmed == team_name \in confirm_delete
        deleted == WithoutTeam(config, team_name)
    IN  /\ fault \in TeamsFaults(backend)
        /\ outcome \in WriteOutcomes(backend)
        /\ team_name \in DOMAIN config
        /\ teams_config' = IF confirmed THEN deleted ELSE config
        /\ teams_file' = IF confirmed THEN TeamsStoredAfter(teams_file, deleted, outcome)
                         ELSE teams_file
        /\ confirm_delete' = confirm_delete \cup {team_name}
        /\ admin' = [AdminAction("delete_team", team_name,
                        IF ~confirmed THEN "Click again to confirm deletion"
                        ELSE IF save_teams_config(outcome) THEN "deleted"
                        ELSE "Failed to delete team")
                       EXCEPT !.clicked = @ \cup {team_name}]
        /\ UNCHANGED <<backend, local_files, settingsVars, accessVars, store, loaded, views, sessionVars>>

(* SpecTeams: an administrator creates, edits and deletes teams. *)

InitTeams ==
    /\ backend \in {"local", "s3"}
    /\ \E partition \in LocalAlternatives \ {Missing} :
          store = [f \in PartitionFiles |-> partition]
    /\ local_files = [f \in PartitionFiles |-> Missing]
    /\ loaded = NotLoaded
    /\ views = NotRendered
    /\ InitSessions
    /\ teams_file = Missing

NextTeams ==
    \/ \E team_name \in TeamNames \cup {<< >>}, fault \in {"none", "get"},
          outcome \in {"ok", "fail", "torn"} :
            CreateTeam(team_name, fault, outcome)
    \/ \E team_name \in TeamNames, dev_name \in DevNames, dev_email \in DevEmails,
          fault \in {"none", "get"}, outcome \in {"ok", "fail", "torn"} :
            AddDeveloper(team_name, dev_name, dev_email, fault, outcome)
    \/ \E team_name \in TeamNames, i \in 1..(MaxDevs + 1), fault \in {"none", "get"},
          outcome \in {"ok", "fail", "torn"} :
            RemoveDeveloper(team_name, i, fault, outcome)
    \/ \E team_name \in TeamNames, fault \in {"none", "get"},
          outcome \in {"ok", "fail", "torn"} :
            DeleteTeam(team_name, fault, outcome)

SpecTeams == InitTeams /\ [][NextTeams]_vars

\* the teams of the configuration, in memory and as stored
ConfiguredTeams ==
    DOMAIN teams_config \cup DOMAIN load_teams_config(backend, teams_file, "none")

\* C3: get_team_excel_file is collision-free over the team names used in the
\* system: in every teams configuration reachable by Create Team and Delete
\* Team, two distinct team names never map to the same partition file name.
C3_PartitionKeysCollisionFree ==
    \A n1, n2 \in ConfiguredTeams :
        n1 # n2 => get_team_excel_file(n1) # get_team_excel_file(n2)

----------------------------------------------------------------------------
(* Claims about the shape of the loaded table, checked under SpecLoad. *)

\* C11: every table returned by load_excel_data has exactly the canonical
\* columns, in the canonical order: extra or unknown stored columns, the
\* legacy 'Week' column included, are dropped, on both backends.
C11_CanonicalColumns ==
    loaded.called
    => /\ loaded.df.columns = DB_COLUMNS
       /\ \A i \in DOMAIN loaded.df.rows : DOMAIN loaded.df.rows[i] = Range(DB_COLUMNS)

\* C12: the local and the S3 medium behave alike: for the same stored content,
\* or the same absence of content, the load_excel_data of the local manager
\* and the one of the S3 manager return the same table.
C12_BackendsAgree ==
    loaded.called
    => DataManager_load_excel_data(StoredPartition).df
         = S3DataManager_load_excel_data(StoredPartition, "none").df

\* C13: transparent degradation: when S3 is the configured medium and a
\* request to it fails at the time of a load, the load is carried out against
\* the local medium: it returns what the local manager loads from the local
\* file.
C13_DegradesToLocal ==
    (loaded.called /\ backend = "s3" /\ loaded.fault # "none")
    => loaded.df
         = DataManager_load_excel_data(local_files[get_team_excel_file(TeamA)]).df

----------------------------------------------------------------------------
(* Routing of a request and the admin login: app.py. *)

\* hashlib.sha256(s.encode()).hexdigest(): distinct strings, distinct digests
sha256(s) == [alg |-> "sha256", of |-> s]

\* os.environ.get("ADMIN_PASSWORD", "admin123")
ADMIN_PASSWORD == "admin123"

\* app.py:26-31
get_admin_password_hash == sha256(ADMIN_PASSWORD)

\* a check that accepts every password
verify_admin_password_Any(input_password) == TRUE

\* app.py:33-36
verify_admin_password(input_password) == sha256(input_password) = get_admin_password_hash

\* the passwords typed in the login form
Passwords == {"admin123", "Admin123", ""}

\* the values of the 'dev' and 'team' parameters of a URL
DevParams == {"", "dev1", "Dev1", "dev2"}
TeamParams == TeamNames \cup {<< >>}

\* demo_setup.py:19: hashlib.md5(f"{developer_name}_{team_name}").hexdigest()[:8],
\* the token of the links demo_setup.py generates
demo_token(developer_name, team_name) ==
    [t |-> "md5", text |-> << developer_name, "_" >> \o team_name]

\* the 'token' parameter of a URL: none, the token of (dev1, a), another token
TokenParams == {NoToken, demo_token("dev1", << "a" >>), demo_token("dev2", << "a" >>)}

\* app.py:52-61: the names of the developers of a team
DeveloperNames(team_config) == {team_config[i].name : i \in DOMAIN team_config}

NoLink == [engineer_name |-> "", team_name |-> << >>]

\* a link check that looks at the team only
parse_engineer_link_TeamOnly(params, config) ==
    IF params.dev # "" /\ params.team \in DOMAIN config
    THEN [engineer_name |-> params.dev, team_name |-> params.team]
    ELSE NoLink

\* app.py:38-67, on the configuration its load returned
parse_engineer_link(params, config) ==
    IF /\ params.team \in DOMAIN config
       /\ Str(params.dev) \in DeveloperNames(config[params.team])
    THEN [engineer_name |-> params.dev, team_name |-> params.team]
    ELSE NoLink

\* app.py:113-189: the branch main takes
Route(params, authenticated, config) ==
    LET link == parse_engineer_link(params, config)
    IN  IF link.engineer_name # "" /\ link.team_name # << >> THEN "engineer"
        ELSE IF params.admin \/ authenticated
             THEN (IF ~authenticated THEN "admin_login" ELSE "admin")
        ELSE "landing"

\* one run of main for the session; the fault is the one of the teams load
Render(params, authenticated, fault, login, password, wrong_attempts) ==
    LET config == load_teams_config(backend, teams_file, fault)
    IN  [view |-> Route(params, authenticated, config), config |-> config,
         login |-> login, password |-> password, wrong_attempts |-> wrong_attempts]

\* A browser opens a URL: a new session, session_state empty (app.py:107-108).
OpenUrl(dev, team, token, admin_param, fault) ==
    /\ fault \in TeamsFaults(backend)
    /\ query_params' = [dev |-> dev, team |-> team, admin |-> admin_param,
                        token |-> token]
    /\ admin_authenticated' = FALSE
    /\ page' = Render(query_params', FALSE, fault, "none", "", page.wrong_attempts)
    /\ UNCHANGED <<backend, local_files, settingsVars, store, loaded, views, sessionVars, adminVars>>

\* A rerun of the session with no button pressed.
RerunPage(fault) ==
    /\ page.view # "none"
    /\ fault \in TeamsFaults(backend)
    /\ page' = Render(query_params, admin_authenticated, fault, "none", "",
                      page.wrong_attempts)
    /\ UNCHANGED <<backend, local_files, settingsVars, store, loaded, views, sessionVars, adminVars,
                   admin_authenticated, query_params>>

\* app.py:79-88: the login form is submitted
Login(password, fault) ==
    /\ page.view = "admin_login"
    /\ fault \in TeamsFaults(backend)
    /\ ~verify_admin_password(password) => page.wrong_attempts < MaxAttempts
    /\ IF verify_admin_password(password)
       THEN /\ admin_authenticated' = TRUE
            /\ page' = Render(query_params, TRUE, fault, "accepted", password,
                              page.wrong_attempts)
       ELSE /\ admin_authenticated' = admin_authenticated
            /\ page' = [page EXCEPT !.login = "rejected", !.password = password,
                                    !.wrong_attempts = @ + 1]
    /\ UNCHANGED <<backend, local_files, settingsVars, store, loaded, views, sessionVars, adminVars,
                   query_params>>

\* app.py:175-178: "Logout"
Logout(fault) ==
    /\ page.view = "admin"
    /\ fault \in TeamsFaults(backend)
    /\ admin_authenticated' = FALSE
    /\ query_params' = NoParams
    /\ page' = Render(NoParams, FALSE, fault, "none", "", page.wrong_attempts)
    /\ UNCHANGED <<backend, local_files, settingsVars, store, loaded, views, sessionVars, adminVars>>

\* app.py:152-156 and 205-207: "Admin Access", in the engineer sidebar (the
\* parameters are cleared) and on the landing view (admin=true is set)
AdminAccess(fault) ==
    /\ page.view \in {"engineer", "landing"}
    /\ fault \in TeamsFaults(backend)
    /\ query_params' = IF page.view = "engineer" THEN NoParams
                       ELSE [query_params EXCEPT !.admin = TRUE]
    /\ page' = Render(query_params', admin_authenticated, fault, "none", "",
                      page.wrong_attempts)
    /\ UNCHANGED <<backend, local_files, settingsVars, store, loaded, views, sessionVars, adminVars,
                   admin_authenticated>>

\* app.py:212-243: a team and a developer are selected on the landing view,
\* from the configuration main loaded (app.py:111)
SelectEngineer(selected_team, selected_developer, fault) ==
    /\ page.view = "landing"
    /\ fault \in TeamsFaults(backend)
    /\ selected_team \in DOMAIN page.config
    /\ Str(selected_developer) \in DeveloperNames(page.config[selected_team])
    /\ query_params' = [query_params EXCEPT !.dev = selected_developer,
                                            !.team = selected_team]
    /\ page' = Render(query_params', admin_authenticated, fault, "none", "",
                      page.wrong_attempts)
    /\ UNCHANGED <<backend, local_files, settingsVars, store, loaded, views, sessionVars, adminVars,
                   admin_authenticated>>

Developer(dev_name, team_name) ==
    [name |-> Str(dev_name), email |-> EmptyStr,
     link |-> generate_engineer_link(dev_name, team_name)]

\* the teams configurations stored when the sessions start
AccessConfigs ==
    { << >>,
      [t \in {<< "a" >>} |-> << Developer("dev1", t) >>],
      [t \in {<< "a" >>, << "a", " ", "b" >>} |->
          IF t = << "a" >> THEN << Developer("dev1", t) >> ELSE << Developer("dev2", t) >>],
      [t \in {<< "a", "_", "b" >>} |-> << >>] }

(* SpecAccess: browser sessions open URLs, log in and out. *)

InitAccess ==
    /\ backend \in {"local", "s3"}
    /\ store = [f \in PartitionFiles |-> Missing]
    /\ local_files = [f \in PartitionFiles |-> Missing]
    /\ loaded = NotLoaded
    /\ views = NotRendered
    /\ InitSessions
    /\ \E config \in AccessConfigs :
          teams_file \in {Missing, TeamsStoredAfter(Missing, config, "ok")}

NextAccess ==
    \/ \E dev \in DevParams, team \in TeamParams, token \in TokenParams,
          admin_param \in BOOLEAN, fault \in {"none", "get"} :
            OpenUrl(dev, team, token, admin_param, fault)
    \/ \E fault \in {"none", "get"} : RerunPage(fault)
    \/ \E password \in Passwords, fault \in {"none", "get"} : Login(password, fault)
    \/ \E fault \in {"none", "get"} : Logout(fault)
    \/ \E fault \in {"none", "get"} : AdminAccess(fault)
    \/ \E selected_team \in TeamNames, selected_developer \in DevParams,
          fault \in {"none", "get"} :
            SelectEngineer(selected_team, selected_developer, fault)

SpecAccess == InitAccess /\ [][NextAccess]_vars

\* the (dev, team) pair of the URL matches the configuration the run loaded
PairConfigured ==
    /\ query_params.team \in DOMAIN page.config
    /\ \E i \in DOMAIN page.config[query_params.team] :
          page.config[query_params.team][i].name = Str(query_params.dev)

\* the URL presents a (dev, team) pair
PairPresented == query_params.dev # "" /\ query_params.team # << >>

\* C14 as stated: the engineer view for (dev, team) is rendered only when team
\* is a key of the loaded teams configuration and dev is exactly the name of a
\* developer of that team; every other pair presented in the URL gets the
\* landing view.
C14_AccessRouting ==
    page.view # "none"
    => /\ page.view = "engineer" => PairConfigured
       /\ (PairPresented /\ ~PairConfigured) => page.view = "landing"

\* C14, amended: the engineer view is rendered exactly for a configured pair;
\* every other pair is routed as a request with no engineer link: the admin
\* login when the URL has admin=true, the admin interface when the session is
\* authenticated, the landing view otherwise.
C14_AccessRoutingAmended ==
    page.view # "none"
    => /\ page.view = "engineer" <=> PairConfigured
       /\ ~PairConfigured =>
            page.view = (IF admin_authenticated THEN "admin"
                         ELSE IF query_params.admin THEN "admin_login"
                         ELSE "landing")

C14_Witness ==
    /\ page.view = "landing"
    /\ query_params.team \in DOMAIN page.config
    /\ query_params.dev = "Dev1"
    /\ Str("dev1") \in DeveloperNames(page.config[query_params.team])

\* The gate in a state: the admin interface is rendered only if
\* admin_authenticated is true; a submitted password is accepted exactly when
\* its SHA-256 digest is the digest of the configured secret, however many
\* wrong passwords came before; a rejected one leaves admin_authenticated false.
AdminGate ==
    /\ page.view = "admin" => admin_authenticated
    /\ page.login = "accepted" => sha256(page.password) = sha256(ADMIN_PASSWORD)
    /\ page.login = "rejected" =>
          ~admin_authenticated /\ sha256(page.password) # sha256(ADMIN_PASSWORD)

\* The gate in a step: admin_authenticated changes from false to true only by a
\* login submission with the configured secret, and such a submission always
\* sets it (no lockout).
AdminGateStep ==
    /\ (~admin_authenticated /\ admin_authenticated')
          => /\ page.view = "admin_login"
             /\ page'.login = "accepted"
             /\ sha256(page'.password) = sha256(ADMIN_PASSWORD)
    /\ page'.login = "accepted" => admin_authenticated'

----------------------------------------------------------------------------
(* Claims about the loaded rows and the metrics computed from them, checked  *)
(* under SpecLoad.                                                           *)

\* C16: after normalisation, every row returned by load_excel_data whose
\* Copilot_Used is 'No' has Efficiency_Gained_Hours equal to 0, whatever the
\* stored table contained.
C16_NoCopilotNoGain ==
    loaded.called
    => \A i \in DOMAIN loaded.df.rows :
          loaded.df.rows[i]["Copilot_Used"] = Str("No")
          => loaded.df.rows[i]["Efficiency_Gained_Hours"] = Num(0)


----------------------------------------------------------------------------
(* Metrics (SpecLoad): the rates the dashboards compute from a loaded       *)
(* partition.                                                               *)

\* the hours of a group of rows, as a set of <<estimate, gained>> pairs
Hours(rows) ==
    { <<rows[i]["Original_Estimate_Hours"], rows[i]["Efficiency_Gained_Hours"]>> :
        i \in DOMAIN rows }

\* the two entries (estimate 10, gained 3) and (estimate 5, gained 0)
PinnedPair(rows) ==
    Len(rows) = 2 /\ Hours(rows) = { <<Num(10), Num(3)>>, <<Num(5), Num(0)>> }

\* C17: average efficiency is the mean of the rows' gained/estimate*100, the
\* same at the engineer dashboard, the admin per-team stats and the admin key
\* metrics: the per-team and the key-metrics values agree, the engineer's
\* value agrees with them when the engineer owns every row, and for the two
\* entries (10, 3) and (5, 0) each site shows exactly 15 (the ratio of the
\* sums would be 20).
C17_PerRowMean ==
    views.rendered =>
        /\ PinnedPair(RowsOf(loaded.df, views.dev)) => views.engineer_avg = Fin(15, 1)
        /\ PinnedPair(loaded.df.rows)
             => /\ views.team_stats.avg_efficiency = Fin(15, 1)
                /\ views.key_metrics.avg_efficiency = Fin(15, 1)
        /\ views.team_stats.avg_efficiency = views.key_metrics.avg_efficiency
        /\ (loaded.df.rows # << >> /\ RowsOf(loaded.df, views.dev) = loaded.df.rows)
             => views.engineer_avg = views.team_stats.avg_efficiency

C17_Witness ==
    /\ views.rendered
    /\ PinnedPair(loaded.df.rows)
    /\ PinnedPair(RowsOf(loaded.df, views.dev))
    /\ views.engineer_avg = Fin(15, 1)
    /\ views.key_metrics.avg_efficiency = Fin(15, 1)

\* a non-empty group of rows with numeric hours whose estimates sum to zero
ZeroEstimateGroup(rows) ==
    /\ Len(rows) > 0
    /\ NumericCol(rows, "Efficiency_Gained_Hours")
    /\ NumericCol(rows, "Original_Estimate_Hours")
    /\ SumFin([i \in DOMAIN rows |->
                 IF rows[i]["Original_Estimate_Hours"].t = "num"
                 THEN Fin(rows[i]["Original_Estimate_Hours"].n, 1) ELSE FNaN], 1)
         = Fin(0, 1)

NonFinite(v) == v.t \in {"fnan", "inf"}

\* C18: for a group of rows whose Original_Estimate_Hours sum to zero the
\* efficiency rate is computed without an error and is not a finite number
\* (so never 0): NaN when no row of the group gained hours, an infinity
\* otherwise.
C18_ZeroEstimateUndefined ==
    views.rendered =>
        /\ ZeroEstimateGroup(loaded.df.rows)
             => /\ NonFinite(views.team_stats.avg_efficiency)
                /\ NonFinite(views.key_metrics.avg_efficiency)
        /\ ZeroEstimateGroup(RowsOf(loaded.df, views.dev))
             => NonFinite(views.engineer_avg)

C18_Witness ==
    /\ views.rendered
    /\ ZeroEstimateGroup(loaded.df.rows)
    /\ ZeroEstimateGroup(RowsOf(loaded.df, views.dev))
    /\ views.team_stats.avg_efficiency = FNaN
    /\ views.engineer_avg = FNaN

\* the rate of 'Yes' over the rows whose Copilot_Used is not blank
UsageOverAnswered(rows) ==
    LET answered == SelectSeq(rows, LAMBDA r : r["Copilot_Used"] \notin {NaN, EmptyStr})
        yes == SelectSeq(answered, LAMBDA r : r["Copilot_Used"] = Str("Yes"))
    IN  IF answered = << >> THEN FNaN ELSE Fin(Len(yes) * 100, Len(answered))

\* C19: the Copilot usage rate is the number of 'Yes' rows over the number of
\* rows whose Copilot_Used is not blank, times 100: blank rows count neither
\* as 'Yes' nor as 'No'.
C19_UsageExcludesBlank ==
    (views.rendered /\ views.admin = "metrics")
    => /\ views.team_stats.copilot_usage = UsageOverAnswered(loaded.df.rows)
       /\ views.key_metrics.copilot_usage = UsageOverAnswered(loaded.df.rows)


----------------------------------------------------------------------------
(* Team settings (SpecSettings): the admin edits categories, efficiency     *)
(* areas and mappings; the engineer's entry form offers areas for the       *)
(* category picked.                                                         *)

MaxSettingsSaves == 2

\* the values typed and picked in this model
NewCategories == {"Research"}
NewAreas == {"Unit Test Generation"}
EditedCategories == {"Bug Fixes", "Research"}
EditedAreas == {"Debugging", "Code Analysis", "Unit Test Generation"}
FormCategories == EditedCategories \cup {"Testing"}

\* st.multiselect over efficiency_areas: nothing, or one of the edited areas
AllSelections == {<< >>} \cup {<<a>> : a \in EditedAreas}
Selections(efficiency_areas) ==
    {sel \in AllSelections : Range(sel) \subseteq Range(efficiency_areas)}

SettingsFaults(b) == IF b = "s3" THEN {"none", "get"} ELSE {"none"}

\* admin_interface.py:270: the settings the page loaded for this run
PageSettings(fault) ==
    load_team_settings(backend, settings_file, default_settings, fault)

\* the tail of every settings handler: the edited lists are those of
\* DEFAULT_SETTINGS when the settings came from a shallow copy of it, and
\* save_team_settings is called with the edited settings
SaveSettings(l, changed, write) ==
    /\ settings_saves < MaxSettingsSaves
    /\ write \in {"ok", "fail"}
    /\ settings_file' = save_team_settings(backend, settings_file, changed, write)
    /\ default_settings' =
          IF l.aliased
          THEN [categories |-> changed.categories,
                efficiency_areas |-> changed.efficiency_areas]
          ELSE default_settings
    /\ settings_saves' = settings_saves + 1
    /\ UNCHANGED <<backend, store, local_files, loaded, views, sessionVars, adminVars,
                   accessVars, entry>>

\* admin_interface.py:293-303
AddCategory(new_category, fault, write) ==
    LET l == PageSettings(fault) IN
    /\ fault \in SettingsFaults(backend)
    /\ new_category \notin Range(l.settings.categories)
    /\ SaveSettings(l, [l.settings EXCEPT !.categories = Append(@, new_category)], write)

\* admin_interface.py:308-322
DeleteCategory(i, fault, write) ==
    LET l == PageSettings(fault) IN
    /\ fault \in SettingsFaults(backend)
    /\ i \in DOMAIN l.settings.categories
    /\ l.settings.categories[i] \in EditedCategories
    /\ SaveSettings(l, [l.settings EXCEPT !.categories = Pop(@, i)], write)

\* admin_interface.py:335-345
AddArea(new_area, fault, write) ==
    LET l == PageSettings(fault) IN
    /\ fault \in SettingsFaults(backend)
    /\ new_area \notin Range(l.settings.efficiency_areas)
    /\ SaveSettings(l, [l.settings EXCEPT !.efficiency_areas = Append(@, new_area)], write)

\* admin_interface.py:350-364: the area leaves efficiency_areas, the mappings
\* that name it stay as they are
DeleteArea(i, fault, write) ==
    LET l == PageSettings(fault) IN
    /\ fault \in SettingsFaults(backend)
    /\ i \in DOMAIN l.settings.efficiency_areas
    /\ l.settings.efficiency_areas[i] \in EditedAreas
    /\ SaveSettings(l, [l.settings EXCEPT !.efficiency_areas = Pop(@, i)], write)

\* admin_interface.py:368-401: st.multiselect raises when a default is not
\* among its options, so the category's button exists only when the mappings
\* of the categories up to it are all drawn from efficiency_areas
SaveMapping(category, selected_areas, fault, write) ==
    LET l == PageSettings(fault)
        categories == l.settings.categories
        efficiency_areas == l.settings.efficiency_areas
        mappings == l.settings.category_efficiency_mapping
    IN  /\ fault \in SettingsFaults(backend)
        /\ categories # << >> /\ efficiency_areas # << >>
        /\ \E i \in DOMAIN categories :
              /\ categories[i] = category
              /\ \A j \in 1..i :
                    Range(get(mappings, categories[j])) \subseteq Range(efficiency_areas)
        /\ selected_areas \in Selections(efficiency_areas)
        /\ SaveSettings(l, [l.settings EXCEPT !.category_efficiency_mapping =
                                Assign(@, category, selected_areas)], write)

\* engineer_interface.py:46-48 and 72-130: the form loads the settings, the
\* engineer picks Copilot usage and a category, the areas are offered
RenderDataEntry(category, copilot_used, fault) ==
    LET settings == PageSettings(fault).settings IN
    /\ fault \in SettingsFaults(backend)
    /\ category \in Range(settings.categories)
    /\ entry' = [rendered |-> TRUE,
                 settings |-> settings,
                 category |-> category,
                 copilot_used |-> copilot_used,
                 available_areas |-> IF copilot_used = "Yes"
                                     THEN available_areas(settings, category)
                                     ELSE << >>]
    /\ UNCHANGED <<backend, store, local_files, loaded, views, sessionVars, adminVars,
                   accessVars, settings_file, default_settings, settings_saves>>

InitSettings ==
    /\ backend \in {"local", "s3"}
    /\ store = [f \in PartitionFiles |-> Missing]
    /\ local_files = [f \in PartitionFiles |-> Missing]
    /\ loaded = NotLoaded
    /\ views = NotRendered
    /\ teams_file = Missing
    /\ InitSessions

NextSettings ==
    \/ \E c \in NewCategories, fault \in {"none", "get"}, write \in {"ok", "fail"} :
          AddCategory(c, fault, write)
    \/ \E i \in 1..9, fault \in {"none", "get"}, write \in {"ok", "fail"} :
          DeleteCategory(i, fault, write)
    \/ \E a \in NewAreas, fault \in {"none", "get"}, write \in {"ok", "fail"} :
          AddArea(a, fault, write)
    \/ \E i \in 1..11, fault \in {"none", "get"}, write \in {"ok", "fail"} :
          DeleteArea(i, fault, write)
    \/ \E c \in EditedCategories, sel \in AllSelections,
          fault \in {"none", "get"}, write \in {"ok", "fail"} :
            SaveMapping(c, sel, fault, write)
    \/ \E c \in FormCategories, copilot_used \in {"Yes", "No"}, fault \in {"none", "get"} :
          RenderDataEntry(c, copilot_used, fault)

SpecSettings == InitSettings /\ [][NextSettings]_vars

\* the category has no entry, or an empty one, in the configured mapping
Unmapped(settings, category) == get(settings.category_efficiency_mapping, category) = << >>

\* C20: when the entry form offers efficiency areas for a category without an
\* entry (or with an empty entry) in the configured mapping, it offers exactly
\* the configured efficiency_areas; the areas offered for any category are
\* all among the configured efficiency_areas.
C20_AreasFromSettings ==
    (entry.rendered /\ entry.copilot_used = "Yes")
    => /\ Unmapped(entry.settings, entry.category)
            => entry.available_areas = entry.settings.efficiency_areas
       /\ Range(entry.available_areas) \subseteq Range(entry.settings.efficiency_areas)


----------------------------------------------------------------------------
(* Team management (SpecTeams). *)

C22_DeleteTeamDeletesEntries ==
    (/\ admin.action = "delete_team"
     /\ admin.message = "deleted"
     /\ get_team_excel_file(admin.team) \in PartitionFiles)
    => load_excel_data(backend, store[get_team_excel_file(admin.team)], "none").df.rows
         = << >>


----------------------------------------------------------------------------
(* Claims about the entries the form writes, checked under SpecForm. *)

MaxDate == 20

\* C23: for every date d, get_week_dates(d) is a Monday at or before d and the
\* Sunday six days later, at or after d; so every entry the engineer form
\* persisted has Week_Start and Week_End the Monday and the Sunday of the week
\* picked, exactly 6 days apart.
C23_WeekInvariant ==
    /\ \A d \in 0..MaxDate :
          LET monday == get_week_dates(d)[1]
              sunday == get_week_dates(d)[2]
          IN  /\ weekday(monday) = 0
              /\ monday <= d /\ d <= sunday
              /\ sunday = monday + 6
    /\ \A s \in FormSessions :
          (sub[s].submitted /\ sub[s].write = "ok")
          => LET row == sub[s].after[Len(sub[s].after)] IN
             /\ row["Week_Start"].t = "iso" /\ row["Week_End"].t = "iso"
             /\ row["Week_Start"].d <= sub[s].week_date
             /\ sub[s].week_date <= row["Week_End"].d
             /\ row["Week_End"].d = row["Week_Start"].d + 6

C23_Witness ==
    /\ sub[1].submitted /\ sub[1].write = "ok"
    /\ sub[1].week_date = 13
    /\ sub[1].after[Len(sub[1].after)]["Week_Start"] = IsoStr(7)
    /\ sub[1].after[Len(sub[1].after)]["Week_End"] = IsoStr(13)

\* C26: every entry persisted through the form with Copilot_Used = 'No' has
\* Efficiency_Gained_Hours = 0 and an empty Areas_of_Efficiency, also when the
\* areas checkboxes and the "Time Saved" input held values from a run in which
\* Copilot_Used was 'Yes'.
C26_NoCopilotEntry ==
    \A s \in FormSessions :
        (sub[s].submitted /\ sub[s].write = "ok" /\ sub[s].copilot_used = "No")
        => LET row == sub[s].after[Len(sub[s].after)] IN
           /\ row["Copilot_Used"] = Str("No")
           /\ row["Efficiency_Gained_Hours"] = Num(0)
           /\ row["Areas_of_Efficiency"] = ExcelCell(EmptyStr)

C26_Witness ==
    /\ sub[1].submitted /\ sub[1].write = "ok" /\ sub[1].copilot_used = "No"
    /\ sub[1].areas_checked # << >>
    /\ sub[1].gained_input > 0
    /\ sub[1].after[Len(sub[1].after)]["Story_ID"] = Str("ENG-7")


----------------------------------------------------------------------------
(* Engineers of several teams (SpecVisibility): an administrator sets up    *)
(* teams, engineers open their links, save entries and look at their data.  *)

\* the partitions of all team names
TeamFiles == {get_team_excel_file(t) : t \in TeamNames}

\* the teams set up and the developer added to them in this model
VisibleTeams == {<< "a", " ", "b" >>, << "a", "_", "b" >>}
VisibleDevs == {"dev1"}

\* app.py:102-116: main loads the configuration and checks the link
EngineerLink(dev, team) ==
    parse_engineer_link([dev |-> dev, team |-> team, admin |-> FALSE, token |-> NoToken],
                        load_teams_config(backend, teams_file, "none"))

\* app.py:116-159, engineer_interface.py:42-48 and 196-278: the engineer of a
\* valid link saves a valid entry into the team's partition
EngineerSaves(dev, team, week_date, copilot_used, outcome) ==
    LET link == EngineerLink(dev, team)
        team_file == get_team_excel_file(link.team_name)
        week == get_week_dates(week_date)
        loaded_df == load_excel_data(backend, store[team_file], "none").df
        row == [Week_Start |-> IsoStr(week[1]), Week_End |-> IsoStr(week[2]),
                Story_ID |-> Str("ENG-7"),
                Developer_Name |-> Str(link.engineer_name),
                Team_Name |-> TeamStr(link.team_name),
                Original_Estimate_Hours |-> Num(8),
                Efficiency_Gained_Hours |-> Num(efficiency_gained(copilot_used, 2)),
                Copilot_Used |-> Str(copilot_used), Category |-> Str(Category),
                Areas_of_Efficiency |->
                    Joined(IF copilot_used = "Yes" THEN << "Code Generation" >> ELSE << >>),
                Notes_Observations |-> EmptyStr]
    IN  /\ link # NoLink
        /\ outcome \in WriteOutcomes(backend)
        /\ writes < MaxWrites
        /\ store' = [store EXCEPT ![team_file] =
                        StoredAfter(@, ConcatRow(loaded_df, row), outcome)]
        /\ writes' = writes + 1
        /\ UNCHANGED <<backend, local_files, settingsVars, accessVars, loaded, views, pc, df,
                       loadErr, loadedAt, form_version, ui, sub, adminVars>>

\* app.py:116-159, engineer_interface.py:23-40: the engineer view of a valid
\* link: the sidebar quick stats over user_data and the tabs over engineer_df
EngineerViews(dev, team) ==
    LET link == EngineerLink(dev, team)
        team_file == get_team_excel_file(link.team_name)
        loaded_df == load_excel_data(backend, store[team_file], "none").df
    IN  /\ link # NoLink
        /\ views' = [rendered |-> TRUE,
                     dev |-> link.engineer_name,
                     team |-> link.team_name,
                     sidebar |-> SidebarStats(loaded_df, link.engineer_name),
                     dashboard |-> EngineerDashboard(loaded_df, link.engineer_name),
                     user_data |-> IF IsEmpty(loaded_df) THEN << >>
                                   ELSE RowsOf(loaded_df, link.engineer_name),
                     engineer_df |-> IF IsEmpty(loaded_df) THEN << >>
                                     ELSE RowsOf(loaded_df, link.engineer_name)]
        /\ UNCHANGED <<backend, local_files, settingsVars, accessVars, store, loaded,
                       sessionVars, adminVars>>

InitVisibility ==
    /\ backend \in {"local", "s3"}
    /\ store = [f \in TeamFiles |-> Missing]
    /\ local_files = [f \in PartitionFiles |-> Missing]
    /\ loaded = NotLoaded
    /\ views = NotRendered
    /\ InitSessions
    /\ teams_file = Missing

NextVisibility ==
    \/ \E team_name \in VisibleTeams : CreateTeam(team_name, "none", "ok")
    \/ \E team_name \in VisibleTeams, dev_name \in VisibleDevs :
          AddDeveloper(team_name, dev_name, "", "none", "ok")
    \/ \E dev \in VisibleDevs, team \in VisibleTeams, week_date \in FormDates,
          copilot_used \in {"Yes", "No"}, outcome \in {"ok", "fail", "torn"} :
            EngineerSaves(dev, team, week_date, copilot_used, outcome)
    \/ \E dev \in VisibleDevs, team \in VisibleTeams : EngineerViews(dev, team)

SpecVisibility == InitVisibility /\ [][NextVisibility]_vars

\* C24: the engineer view opened for (dev, team), sidebar quick stats
\* included, shows and aggregates only entries whose Developer_Name is dev and
\* whose Team_Name is team.
C24_NoCrossTeamVisibility ==
    views.rendered
    => \A rows \in {views.user_data, views.engineer_df} : \A i \in DOMAIN rows :
          /\ rows[i]["Developer_Name"] = Str(views.dev)
          /\ rows[i]["Team_Name"] = TeamStr(views.team)


----------------------------------------------------------------------------
(* Access tokens (SpecAccess). *)

\* C25: a request reaches the engineer view only if it carries the token
\* generated for its developer and team: with a missing or a wrong token the
\* engineer view is not shown.
C25_TokenRequired ==
    page.view = "engineer"
    => query_params.token = demo_token(query_params.dev, query_params.team)


\* C27: a click on "Delete Team" removes a team of the configuration only if
\* "Delete Team" was clicked for that team before, since the team was created:
\* the first click for a team never removes it.
C27_DeleteNeedsConfirmation ==
    [][\A team_name \in TeamNames, fault \in {"none", "get"},
          outcome \in {"ok", "fail", "torn"} :
          (/\ DeleteTeam(team_name, fault, outcome)
           /\ team_name \notin DOMAIN teams_config')
          => team_name \in admin.clicked]_vars


----------------------------------------------------------------------------
(* Claims about the team settings, checked under SpecSettings. *)

\* what the next load_team_settings returns, no request failing
SettingsAfter(file, defaults) == load_team_settings(backend, file, defaults, "none").settings

\* C28: when save_team_settings fails during Add Category or Add Efficiency
\* Area, the next load_team_settings returns the settings it returned before
\* the action; and no admin action modifies the lists of DEFAULT_SETTINGS.
C28_FailedSaveChangesNothing ==
    [][/\ \A new \in NewCategories \cup NewAreas, fault \in {"none", "get"} :
            (AddCategory(new, fault, "fail") \/ AddArea(new, fault, "fail"))
            => SettingsAfter(settings_file', default_settings')
                 = SettingsAfter(settings_file, default_settings)
       /\ default_settings' = default_settings]_vars


----------------------------------------------------------------------------
(* The media of a run (SpecLoad). *)

\* C29: within one run get_data_manager, get_teams_config_manager and
\* get_team_settings_manager return managers of the same medium, all S3 or all
\* local.
C29_OneMedium ==
    loaded.called
    => /\ loaded.manager = get_teams_config_manager(backend, loaded.fault)
       /\ loaded.manager = get_team_settings_manager(backend, loaded.fault)


\* the settings a stored settings file was written from
SavedSettings(file) ==
    IF file.kind = "json" THEN file.settings
    ELSE [categories |-> file.Categories,
          efficiency_areas |-> file.Efficiency_Areas,
          category_efficiency_mapping |-> file.Mapping]

\* C30: after a successful save_team_settings the next load_team_settings
\* returns the settings that were saved: the same categories and efficiency
\* areas in the same order and the same mapping, key by key.
C30_SettingsRoundTrip ==
    settings_file.kind # "missing"
    => SettingsAfter(settings_file, default_settings) = SavedSettings(settings_file)

====
